---------------------------- MODULE Spec2Model ----------------------------
(***************************************************************************)
(* Model of vocabulary/evaluator.py: VocabularyEvaluator.evaluate, the     *)
(* aggregation of three collaborator results into one VocabularyResult.    *)
(*                                                                         *)
(* Python floats are IEEE 754 binary64 values.  A float is modelled        *)
(* exactly, as a significand and a binary exponent, the significand being  *)
(* an arbitrary-size natural number kept as a sequence of limbs, so that   *)
(* the products and sums of lines 54-58 and the round() of line 62 are     *)
(* computed bit for bit as CPython computes them (for the non-negative,    *)
(* normal-range values the model draws).                                   *)
(***************************************************************************)
EXTENDS Integers, Sequences, FiniteSets, TLC

(***************************************************************************)
(* Natural numbers of any size: little-endian sequences of limbs in        *)
(* 0..Base-1 without leading zero limbs; <<>> is zero.                     *)
(***************************************************************************)
LimbBits == 12
Base == 2^LimbBits

RECURSIVE Norm(_)
Norm(a) ==
    IF a = <<>> THEN a
    ELSE IF a[Len(a)] = 0 THEN Norm(SubSeq(a, 1, Len(a) - 1)) ELSE a

RECURSIVE NatOf(_)
NatOf(n) == IF n = 0 THEN <<>> ELSE <<n % Base>> \o NatOf(n \div Base)

RECURSIVE IntOf(_)
IntOf(a) == IF a = <<>> THEN 0 ELSE Head(a) + Base * IntOf(Tail(a))

RECURSIVE AddC(_, _, _)
AddC(a, b, c) ==
    IF a = <<>> /\ b = <<>> THEN NatOf(c)
    ELSE LET x == (IF a = <<>> THEN 0 ELSE Head(a))
                  + (IF b = <<>> THEN 0 ELSE Head(b)) + c
         IN  <<x % Base>> \o AddC(IF a = <<>> THEN a ELSE Tail(a),
                                  IF b = <<>> THEN b ELSE Tail(b),
                                  x \div Base)

Add(a, b) == AddC(a, b, 0)

RECURSIVE MulSmallC(_, _, _)
MulSmallC(a, k, c) ==
    IF a = <<>> THEN NatOf(c)
    ELSE LET x == Head(a) * k + c
         IN  <<x % Base>> \o MulSmallC(Tail(a), k, x \div Base)

\* a * k for an ordinary number k < 2^18
MulSmall(a, k) == Norm(MulSmallC(a, k, 0))

RECURSIVE MulRec(_, _)
MulRec(a, b) ==
    IF b = <<>> THEN <<>>
    ELSE Add(MulSmallC(a, Head(b), 0), <<0>> \o MulRec(a, Tail(b)))

Mul(a, b) == Norm(MulRec(a, b))

RECURSIVE DivMod(_, _)
\* quotient and remainder of a by an ordinary number d < 2^18
DivMod(a, d) ==
    IF a = <<>> THEN [q |-> <<>>, r |-> 0]
    ELSE LET hi == DivMod(Tail(a), d)
             x  == hi.r * Base + Head(a)
         IN  [q |-> <<x \div d>> \o hi.q, r |-> x % d]

RECURSIVE Cmp(_, _)
\* -1, 0 or 1 as a < b, a = b or a > b (both normalised)
Cmp(a, b) ==
    IF Len(a) # Len(b) THEN (IF Len(a) < Len(b) THEN -1 ELSE 1)
    ELSE IF a = <<>> THEN 0
    ELSE LET n == Len(a)
         IN  IF a[n] # b[n] THEN (IF a[n] < b[n] THEN -1 ELSE 1)
             ELSE Cmp(Norm(SubSeq(a, 1, n - 1)), Norm(SubSeq(b, 1, n - 1)))

Bit(a, i) ==
    LET l == (i \div LimbBits) + 1
    IN  IF l > Len(a) THEN 0 ELSE (a[l] \div 2^(i % LimbBits)) % 2

\* no bit of a below position k is set
LowZero(a, k) == \A i \in 0..(k - 1) : Bit(a, i) = 0

ShiftLeft(a, k) ==
    IF a = <<>> THEN a
    ELSE [i \in 1..(k \div LimbBits) |-> 0] \o MulSmall(a, 2^(k % LimbBits))

ShiftRight(a, k) ==
    LET d == k \div LimbBits
        r == k % LimbBits
        Limb(j) == IF j > Len(a) THEN 0 ELSE a[j]
    IN  IF d >= Len(a) THEN <<>>
        ELSE Norm([j \in 1..(Len(a) - d) |->
                      (Limb(j + d) \div 2^r)
                      + (Limb(j + d + 1) % 2^r) * 2^(LimbBits - r)])

RECURSIVE SmallBitLen(_)
SmallBitLen(n) == IF n = 0 THEN 0 ELSE 1 + SmallBitLen(n \div 2)

BitLen(a) ==
    IF a = <<>> THEN 0 ELSE LimbBits * (Len(a) - 1) + SmallBitLen(a[Len(a)])

RECURSIVE TrailingZeros(_, _)
\* the number of zero bits of a # 0 from position i up to its lowest set bit
TrailingZeros(a, i) == IF Bit(a, i) = 1 THEN 0 ELSE 1 + TrailingZeros(a, i + 1)

\* a / 2^k rounded to the nearest natural number, ties to even
ShiftRightHalfEven(a, k) ==
    IF k = 0 THEN a
    ELSE LET q  == ShiftRight(a, k)
             up == Bit(a, k - 1) = 1 /\ (~LowZero(a, k - 1) \/ Bit(q, 0) = 1)
         IN  IF up THEN Add(q, <<1>>) ELSE q

(***************************************************************************)
(* Python float: [m |-> significand, e |-> exponent], the value m * 2^e,   *)
(* m odd (or m zero and e = 0), so that equal values are equal records.    *)
(***************************************************************************)
DoublePrecision == 53

Canon(m, e) ==
    IF m = <<>> THEN [m |-> <<>>, e |-> 0]
    ELSE LET z == TrailingZeros(m, 0) IN [m |-> ShiftRight(m, z), e |-> e + z]

\* m * 2^e rounded to a float: round-to-nearest, ties-to-even
RoundFloat(m, e) ==
    LET k == BitLen(m) - DoublePrecision
    IN  IF k <= 0 THEN Canon(m, e) ELSE Canon(ShiftRightHalfEven(m, k), e + k)

FMul(x, y) == RoundFloat(Mul(x.m, y.m), x.e + y.e)

FAdd(x, y) ==
    LET e == IF x.e < y.e THEN x.e ELSE y.e
    IN  RoundFloat(Add(ShiftLeft(x.m, x.e - e), ShiftLeft(y.m, y.e - e)), e)

\* The float a decimal literal num/den denotes (the nearest one): the
\* quotient is taken to more than DoublePrecision + 2 bits and the remainder
\* kept as a sticky bit.
FloatOf(lit) ==
    LET num == lit[1]
        den == lit[2]
        k   == DoublePrecision + 2 + SmallBitLen(den)
        qr  == DivMod(ShiftLeft(NatOf(num), k), den)
        q   == Norm(qr.q)
    IN  IF num = 0 THEN Canon(<<>>, 0)
        ELSE RoundFloat(Add(ShiftLeft(q, 1), IF qr.r = 0 THEN <<>> ELSE <<1>>),
                        0 - k - 1)

(***************************************************************************)
(* round(x, NDigits) of a float x >= 0.  CPython rounds the exact binary   *)
(* value of x to NDigits decimals, ties to even, and returns the float     *)
(* nearest that decimal.  The result is given as the integer n of          *)
(* 10^-NDigits units: it stands for the float nearest n / 10^NDigits,      *)
(* which is a different float for each n.                                  *)
(***************************************************************************)
NDigits == 3

\* a / 2^k rounded to the nearest natural number, ties upwards
ShiftRightHalfUp(a, k) ==
    IF k = 0 THEN a
    ELSE IF Bit(a, k - 1) = 1 THEN Add(ShiftRight(a, k), <<1>>)
    ELSE ShiftRight(a, k)

\* round() with ties away from zero, as C's round() has them
RoundHalfUp(x) ==
    LET scaled == MulSmall(x.m, 10^NDigits)
    IN  IF x.e >= 0 THEN IntOf(ShiftLeft(scaled, x.e))
        ELSE IntOf(ShiftRightHalfUp(scaled, 0 - x.e))

Round(x) ==
    LET scaled == MulSmall(x.m, 10^NDigits)
    IN  IF x.e >= 0 THEN IntOf(ShiftLeft(scaled, x.e))
        ELSE IntOf(ShiftRightHalfEven(scaled, 0 - x.e))

(***************************************************************************)
(* The program state.                                                      *)
(***************************************************************************)
VARIABLES
    LEXICAL_DIVERSITY_WEIGHT,   \* vocabulary.constants, imported at lines 7-11:
    SOPHISTICATION_WEIGHT,      \*   decimal literals <<num, den>>, fixed at
    PRECISION_WEIGHT,           \*   import time
    self,                       \* the evaluator's three attributes (lines 24-26)
    checkers,                   \* the internal state of each collaborator object
    sets,                       \* the set objects: evaluate's default (line 29)
                                \*   and the one the caller built
    pc,                         \* the statement evaluate is at, or its outcome
    text,                       \* parameter text
    passed,                     \* whether the caller gave replacement_words
    replacement_words,          \* parameter replacement_words: the set object
                                \*   it is bound to
    lexical_diversity_score,    \* local of line 43  (<<>> while unassigned)
    sophistication_result,      \* local of line 46
    precision_result,           \* local of line 51
    combined_score,             \* local of line 54
    result,                     \* the VocabularyResult returned (<<>> if none)
    raised,                     \* the exception that left evaluate (<<>> if none)
    calls,                      \* the collaborator calls of this evaluate call
    previous                    \* the outcome of the call just before this one,
                                \*   kept while the text and the collaborators'
                                \*   state are the same (<<>> otherwise)

vars ==
    <<LEXICAL_DIVERSITY_WEIGHT, SOPHISTICATION_WEIGHT, PRECISION_WEIGHT, self,
      checkers, sets, pc, text, passed, replacement_words,
      lexical_diversity_score, sophistication_result, precision_result,
      combined_score, result, raised, calls, previous>>

weights ==
    <<LEXICAL_DIVERSITY_WEIGHT, SOPHISTICATION_WEIGHT, PRECISION_WEIGHT>>

(***************************************************************************)
(* The inputs the model draws.                                             *)
(***************************************************************************)
Texts == {"", "the quick brown fox"}

WordSets == {{}, {<<"quick", "fast">>}}

\* replacement_words as the caller gives it: <<>> omitted, <<s>> the set s
Arguments == {<<>>} \cup {<<s>> : s \in WordSets}

\* (W1, W2, W3): the weights are constants of vocabulary.constants, whose sum
\* nothing checks
WeightChoices ==
    { <<<<3, 10>>, <<3, 10>>, <<4, 10>>>>,
      <<<<5, 10>>, <<25, 100>>, <<25, 100>>>>,
      <<<<5, 10>>, <<5, 10>>, <<5, 10>>>> }

Zero == <<0, 1>>

\* A collaborator's state decides what it answers: a score, or a failure.
Answers(scores, error) ==
    {[fails |-> "", score |-> v] : v \in scores}
        \cup {[fails |-> error, score |-> Zero]}

DiversityStates ==
    Answers({<<625, 10000>>, <<1875, 10000>>, <<1, 1>>}, "ValueError")

SophisticationStates ==
    Answers({<<625, 10000>>, <<1875, 10000>>, <<5, 10>>, <<15, 10>>}, "KeyError")

PrecisionStates ==
    Answers({<<625, 10000>>, <<1875, 10000>>, <<8, 10>>}, "RuntimeError")

(***************************************************************************)
(* The collaborators: what a call answers in a given state of the callee.  *)
(* A call either returns a value or raises; it writes neither its          *)
(* arguments nor its own state.                                            *)
(***************************************************************************)
Returns(v) == [returned |-> <<v>>, raised |-> <<>>]

Raises(kind, who) == [returned |-> <<>>, raised |-> <<[kind |-> kind, origin |-> who]>>]

\* LexicalDiversityCalculator.compute(text) -> {ttr}
LexicalDiversityCompute(st, t) ==
    IF st.fails # "" THEN Raises(st.fails, "LexicalDiversityCalculator")
    ELSE Returns([ttr |-> IF t = "" THEN Zero ELSE st.score])

\* SophisticationChecker.evaluate(text, replacement_words) -> {score, details}
SophisticationEvaluate(st, t, words) ==
    IF st.fails # "" THEN Raises(st.fails, "SophisticationChecker")
    ELSE Returns([score |-> st.score,
                  details |-> [text |-> t, replacement_words |-> words]])

\* PrecisionChecker.evaluate(text) -> {score, details}
PrecisionEvaluate(st, t) ==
    IF st.fails # "" THEN Raises(st.fails, "PrecisionChecker")
    ELSE Returns([score |-> st.score, details |-> [text |-> t]])

(***************************************************************************)
(* VocabularyEvaluator                                                     *)
(***************************************************************************)
\* evaluators constructed in one run
MaxEvaluators == 2

\* the collaborator object of a class that evaluator number k built
Ref(class, k) == [class |-> class, evaluator |-> k]

\* __init__ of evaluator number k: a new collaborator object per attribute
VocabularyEvaluator(k) ==
    [lexical_diversity_checker |-> Ref("LexicalDiversityCalculator", k),
     sophistication_checker    |-> Ref("SophisticationChecker", k),
     precision_checker         |-> Ref("PrecisionChecker", k)]

StatesOf(class) ==
    CASE class = "LexicalDiversityCalculator" -> DiversityStates
      [] class = "SophisticationChecker"      -> SophisticationStates
      [] class = "PrecisionChecker"           -> PrecisionStates

\* the states the collaborators of evaluator e may be in
CheckerStates(e) ==
    { (e.lexical_diversity_checker :> d) @@ (e.sophistication_checker :> s)
          @@ (e.precision_checker :> p) :
      d \in DiversityStates, s \in SophisticationStates, p \in PrecisionStates }

\* a default that is not empty
DefaultWithEntry == {<<"the", "a">>}

\* the default of replacement_words: set(), built once, when the def runs
DefaultReplacementWords == {}

\* the object the parameter replacement_words is bound to
BindReplacementWords(given) == IF given THEN "caller" ELSE "default"

\* a handler that wraps what it catches: except Exception as e: raise ... from e
Wrap(exception) == [kind |-> "VocabularyError", origin |-> "VocabularyEvaluator"]

\* evaluate has no try/except: what a collaborator raises leaves evaluate
Propagate(exception) == exception

\* steps 2 and 3 exchanged
StatementAfterSwapped(stmt) ==
    CASE stmt = "diversity"      -> "precision"
      [] stmt = "precision"      -> "sophistication"
      [] stmt = "sophistication" -> "combine"

\* the statement that follows stmt (lines 42-53)
StatementAfter(stmt) ==
    CASE stmt = "diversity"      -> "sophistication"
      [] stmt = "sophistication" -> "precision"
      [] stmt = "precision"      -> "combine"

\* a failure swallowed: evaluate goes on with the next statement
ContinueRegardless(stmt, outcome) == StatementAfter(stmt)

\* where control goes after the call at stmt: on to the next statement, or
\* out of evaluate with the exception
Continue(stmt, outcome) ==
    IF outcome.raised # <<>> THEN "raised" ELSE StatementAfter(stmt)

\* the weights of lexical diversity and precision exchanged
CombinedScoreSwapped(ttr, sophistication, precision) ==
    FAdd(FAdd(FMul(FloatOf(ttr), FloatOf(PRECISION_WEIGHT)),
              FMul(FloatOf(sophistication), FloatOf(SOPHISTICATION_WEIGHT))),
         FMul(FloatOf(precision), FloatOf(LEXICAL_DIVERSITY_WEIGHT)))

\* the weights forgotten
CombinedScoreUnweighted(ttr, sophistication, precision) ==
    FAdd(FAdd(FloatOf(ttr), FloatOf(sophistication)), FloatOf(precision))

\* lines 54-58
CombinedScore(ttr, sophistication, precision) ==
    FAdd(FAdd(FMul(FloatOf(ttr), FloatOf(LEXICAL_DIVERSITY_WEIGHT)),
              FMul(FloatOf(sophistication), FloatOf(SOPHISTICATION_WEIGHT))),
         FMul(FloatOf(precision), FloatOf(PRECISION_WEIGHT)))

\* the two sub-results exchanged
VocabularyResultSwapped(score, sophistication, precision, lexical_diversity) ==
    [score |-> score, sophistication |-> precision,
     precision |-> sophistication, lexical_diversity |-> lexical_diversity]

\* lines 61-66
VocabularyResult(score, sophistication, precision, lexical_diversity) ==
    [score |-> score, sophistication |-> sophistication,
     precision |-> precision, lexical_diversity |-> lexical_diversity]

Call(callee, method, args, outcome) ==
    [callee |-> callee, method |-> method, args |-> args,
     returned |-> outcome.returned, raised |-> outcome.raised]

Finished == pc \in {"idle", "returned", "raised"}

Init ==
    /\ \E w \in WeightChoices :
           /\ LEXICAL_DIVERSITY_WEIGHT = w[1]
           /\ SOPHISTICATION_WEIGHT = w[2]
           /\ PRECISION_WEIGHT = w[3]
    /\ self = VocabularyEvaluator(1)
    /\ checkers \in CheckerStates(self)
    /\ sets = [default |-> DefaultReplacementWords, caller |-> {}]
    /\ pc = "idle"
    /\ text = ""
    /\ passed = FALSE
    /\ replacement_words = "default"
    /\ lexical_diversity_score = <<>>
    /\ sophistication_result = <<>>
    /\ precision_result = <<>>
    /\ combined_score = <<>>
    /\ result = <<>>
    /\ raised = <<>>
    /\ calls = <<>>
    /\ previous = <<>>

(***************************************************************************)
(* evaluate(text, replacement_words = set()), statement by statement.      *)
(***************************************************************************)
\* The caller calls evaluate: the parameters are bound (lines 28-30).
Evaluate(t, argument) ==
    /\ Finished
    /\ text' = t
    /\ passed' = (argument # <<>>)
    /\ sets' = [sets EXCEPT !.caller = IF argument = <<>> THEN {} ELSE argument[1]]
    /\ replacement_words' = BindReplacementWords(argument # <<>>)
    /\ previous' = IF pc # "idle" /\ t = text
                   THEN <<[passed |-> passed, words |-> sets.caller,
                           result |-> result, raised |-> raised]>>
                   ELSE <<>>
    /\ lexical_diversity_score' = <<>>
    /\ sophistication_result' = <<>>
    /\ precision_result' = <<>>
    /\ combined_score' = <<>>
    /\ result' = <<>>
    /\ raised' = <<>>
    /\ calls' = <<>>
    /\ pc' = "diversity"
    /\ UNCHANGED <<weights, self, checkers>>

\* line 43
CallDiversity ==
    /\ pc = "diversity"
    /\ LET callee  == self.lexical_diversity_checker
           outcome == LexicalDiversityCompute(checkers[callee], text)
       IN  /\ calls' = Append(calls, Call(callee, "compute", <<text>>, outcome))
           /\ lexical_diversity_score' = outcome.returned
           /\ raised' = IF outcome.raised = <<>> THEN <<>>
                        ELSE <<Propagate(outcome.raised[1])>>
           /\ pc' = Continue("diversity", outcome)
    /\ UNCHANGED <<weights, self, checkers, sets, text, passed,
                   replacement_words, sophistication_result, precision_result,
                   combined_score, result, previous>>

\* lines 46-48; after: the set objects once the statement is done
SophisticationStep(after) ==
    /\ pc = "sophistication"
    /\ LET callee  == self.sophistication_checker
           words   == sets[replacement_words]
           outcome == SophisticationEvaluate(checkers[callee], text, words)
       IN  /\ calls' = Append(calls, Call(callee, "evaluate", <<text, words>>, outcome))
           /\ sophistication_result' = outcome.returned
           /\ raised' = IF outcome.raised = <<>> THEN <<>>
                        ELSE <<Propagate(outcome.raised[1])>>
           /\ pc' = Continue("sophistication", outcome)
    /\ sets' = after
    /\ UNCHANGED <<weights, self, checkers, text, passed, replacement_words,
                   lexical_diversity_score, precision_result, combined_score,
                   result, previous>>

\* evaluate writing through its parameter: replacement_words.add(...)
CallSophisticationWriting ==
    SophisticationStep([sets EXCEPT ![replacement_words] = @ \cup {<<text, text>>}])

CallSophistication == SophisticationStep(sets)

\* line 51
CallPrecision ==
    /\ pc = "precision"
    /\ LET callee  == self.precision_checker
           outcome == PrecisionEvaluate(checkers[callee], text)
       IN  /\ calls' = Append(calls, Call(callee, "evaluate", <<text>>, outcome))
           /\ precision_result' = outcome.returned
           /\ raised' = IF outcome.raised = <<>> THEN <<>>
                        ELSE <<Propagate(outcome.raised[1])>>
           /\ pc' = Continue("precision", outcome)
    /\ UNCHANGED <<weights, self, checkers, sets, text, passed,
                   replacement_words, lexical_diversity_score,
                   sophistication_result, combined_score, result, previous>>

\* lines 53-66; attributes: the evaluator's attributes once evaluate returns
ReturnStep(attributes) ==
    /\ pc = "combine"
    /\ combined_score' = <<CombinedScore(lexical_diversity_score[1].ttr,
                                          sophistication_result[1].score,
                                          precision_result[1].score)>>
    /\ result' = <<VocabularyResult(Round(combined_score'[1]),
                                    sophistication_result[1],
                                    precision_result[1],
                                    lexical_diversity_score[1])>>
    /\ pc' = "returned"
    /\ self' = attributes
    /\ UNCHANGED <<weights, checkers, sets, text, passed, replacement_words,
                   lexical_diversity_score, sophistication_result,
                   precision_result, raised, calls, previous>>

\* evaluate assigning an attribute of self
ReturnRebinding ==
    ReturnStep([self EXCEPT !.precision_checker = self.sophistication_checker])

Return == ReturnStep(self)

(***************************************************************************)
(* Between two calls of evaluate.  The caller starts afresh: it keeps no   *)
(* Result, and the set it had built is gone.                               *)
(***************************************************************************)
Afresh ==
    /\ sets' = [sets EXCEPT !.caller = {}]
    /\ pc' = "idle"
    /\ text' = ""
    /\ passed' = FALSE
    /\ replacement_words' = "default"
    /\ lexical_diversity_score' = <<>>
    /\ sophistication_result' = <<>>
    /\ precision_result' = <<>>
    /\ combined_score' = <<>>
    /\ result' = <<>>
    /\ raised' = <<>>
    /\ calls' = <<>>
    /\ previous' = <<>>

\* a collaborator changes state (its tables are reloaded, say)
CollaboratorStateChanges(checker, new) ==
    /\ Finished
    /\ new # checkers[checker]
    /\ checkers' = [checkers EXCEPT ![checker] = new]
    /\ Afresh
    /\ UNCHANGED <<weights, self>>

\* lines 22-26: the caller constructs another evaluator and goes on with it.
\* Built on the same pipeline, its collaborators answer as those of the
\* evaluator before, until their state changes.
Construct ==
    /\ Finished
    /\ self.lexical_diversity_checker.evaluator < MaxEvaluators
    /\ self' = VocabularyEvaluator(self.lexical_diversity_checker.evaluator + 1)
    /\ checkers' =
           [r \in {self'.lexical_diversity_checker, self'.sophistication_checker,
                   self'.precision_checker} |->
               checkers[Ref(r.class, self.lexical_diversity_checker.evaluator)]]
    /\ Afresh
    /\ UNCHANGED weights

Next ==
    \/ \E t \in Texts, argument \in Arguments : Evaluate(t, argument)
    \/ CallDiversity
    \/ CallSophistication
    \/ CallPrecision
    \/ Return
    \/ \E checker \in DOMAIN checkers :
           \E new \in StatesOf(checker.class) :
               CollaboratorStateChanges(checker, new)
    \/ Construct

Spec == Init /\ [][Next]_vars
(***************************************************************************)
(* Properties.                                                             *)
(***************************************************************************)
Returned == pc = "returned"

\* what the collaborators returned, as the call log has it
ReturnedTtr == calls[1].returned[1].ttr
ReturnedSophistication == calls[2].returned[1].score
ReturnedPrecision == calls[3].returned[1].score

\* C1: the score of a returned Result is round(ttr*W1 + sophistication*W2 +
\* precision*W3, 3) of the sub-scores the collaborators returned, the
\* products and sums taken left to right in float arithmetic; with ttr=1.0,
\* sophistication=0.5, precision=0.8 and weights (0.3, 0.3, 0.4) it is 0.77.
ScoreIsRoundedWeightedSum ==
    Returned =>
        /\ result[1].score =
               Round(FAdd(FAdd(FMul(FloatOf(ReturnedTtr),
                                    FloatOf(LEXICAL_DIVERSITY_WEIGHT)),
                               FMul(FloatOf(ReturnedSophistication),
                                    FloatOf(SOPHISTICATION_WEIGHT))),
                          FMul(FloatOf(ReturnedPrecision),
                               FloatOf(PRECISION_WEIGHT))))
        /\ (/\ weights = <<<<3, 10>>, <<3, 10>>, <<4, 10>>>>
            /\ ReturnedTtr = <<1, 1>>
            /\ ReturnedSophistication = <<5, 10>>
            /\ ReturnedPrecision = <<8, 10>>)
               => result[1].score = 770

ScenarioScored ==
    /\ Returned
    /\ text = "the quick brown fox"
    /\ weights = <<<<3, 10>>, <<3, 10>>, <<4, 10>>>>
    /\ ReturnedTtr = <<1, 1>>
    /\ ReturnedSophistication = <<5, 10>>
    /\ ReturnedPrecision = <<8, 10>>
    /\ result[1].score = 770

\* the collaborators in the expected order, with the method called
Order ==
    <<[callee |-> self.lexical_diversity_checker, method |-> "compute"],
      [callee |-> self.sophistication_checker, method |-> "evaluate"],
      [callee |-> self.precision_checker, method |-> "evaluate"]>>

\* C2: the collaborators are called once each in the order diversity,
\* sophistication, precision; a call is made only when every earlier call
\* has returned, and the Result exists only when all three have returned.
CalledOnceInOrder ==
    /\ Len(calls) <= Len(Order)
    /\ \A i \in 1..Len(calls) :
           /\ calls[i].callee = Order[i].callee
           /\ calls[i].method = Order[i].method
           /\ \A j \in 1..(i - 1) : calls[j].returned # <<>>
    /\ (Returned \/ result # <<>>) =>
           /\ Len(calls) = Len(Order)
           /\ \A i \in 1..Len(calls) : calls[i].returned # <<>>
           /\ result # <<>>

AllThreeCalled ==
    /\ Returned
    /\ Len(calls) = 3
    /\ result # <<>>

\* C3: a collaborator's failure reaches the caller as it was raised: the
\* failed collaborator was called once, the exception is the collaborator's
\* own, and there is no Result.
FailurePassesThrough ==
    /\ (pc = "raised") =>
           /\ calls # <<>>
           /\ calls[Len(calls)].raised # <<>>
           /\ raised = calls[Len(calls)].raised
           /\ result = <<>>
           /\ Cardinality({i \in 1..Len(calls) :
                  calls[i].callee = calls[Len(calls)].callee}) = 1
    /\ (Finished /\ \E i \in 1..Len(calls) : calls[i].raised # <<>>) =>
           pc = "raised"

SophisticationFailureSeen ==
    /\ pc = "raised"
    /\ calls[Len(calls)].callee = self.sophistication_checker
    /\ raised = <<[kind |-> "KeyError", origin |-> "SophisticationChecker"]>>

\* one call omitted replacement_words and the other gave an empty set
OmittedAgainstEmpty ==
    /\ previous # <<>>
    /\ \/ ~passed /\ previous[1].passed /\ previous[1].words = {}
       \/ passed /\ sets.caller = {} /\ ~previous[1].passed

\* C4: a call without replacement_words hands the sophistication checker an
\* empty set, and returns the Result that the call with an empty set returns
\* (same text, same collaborator state).
OmittedIsEmptySet ==
    /\ (~passed /\ Len(calls) >= 2) => calls[2].args[2] = {}
    /\ (Returned /\ OmittedAgainstEmpty) => result = previous[1].result

OmittedAfterEmpty ==
    /\ Returned
    /\ self = VocabularyEvaluator(2)
    /\ ~passed
    /\ previous # <<>>
    /\ previous[1].passed
    /\ previous[1].words = {}
    /\ previous[1].result # <<>>
    /\ calls[2].args[2] = {}

\* this call has the inputs of the call before it
SameInputs ==
    /\ previous # <<>>
    /\ previous[1].passed = passed
    /\ previous[1].words = sets.caller

\* C5: two calls in a row with the same text and replacement_words, the
\* collaborators' state unchanged in between, return Results equal in every
\* field.
Idempotent ==
    (Returned /\ SameInputs) =>
        /\ previous[1].result # <<>>
        /\ result[1].score = previous[1].result[1].score
        /\ result[1].sophistication = previous[1].result[1].sophistication
        /\ result[1].precision = previous[1].result[1].precision
        /\ result[1].lexical_diversity = previous[1].result[1].lexical_diversity

EvaluatedTwice ==
    /\ Returned
    /\ SameInputs
    /\ passed
    /\ sets.caller # {}
    /\ text # ""

\* a decimal literal within [0, 1]
InUnitInterval(lit) == 0 <= lit[1] /\ lit[1] <= lit[2]

\* W1 + W2 + W3 == 1.0, as Python evaluates it
WeightsSumToOne ==
    FAdd(FAdd(FloatOf(LEXICAL_DIVERSITY_WEIGHT), FloatOf(SOPHISTICATION_WEIGHT)),
         FloatOf(PRECISION_WEIGHT)) = FloatOf(<<1, 1>>)

UnitConditions ==
    /\ InUnitInterval(ReturnedTtr)
    /\ InUnitInterval(ReturnedSophistication)
    /\ InUnitInterval(ReturnedPrecision)
    /\ InUnitInterval(LEXICAL_DIVERSITY_WEIGHT)
    /\ InUnitInterval(SOPHISTICATION_WEIGHT)
    /\ InUnitInterval(PRECISION_WEIGHT)
    /\ WeightsSumToOne

\* C6: with the three sub-scores and the three weights within [0, 1] and the
\* weights summing to 1, the score is within [0, 1] (0..1000 thousandths).
ScoreWithinUnitInterval ==
    (Returned /\ UnitConditions) =>
        0 <= result[1].score /\ result[1].score <= 1000

UnitScoreReturned ==
    /\ Returned
    /\ UnitConditions
    /\ ReturnedSophistication = <<5, 10>>
    /\ result[1].score > 0

\* C7: no step changes the weights or the default set; no step of evaluate
\* changes the evaluator's attributes, a set object or the Result of the
\* call before; and the Result a call returned is, when the next call
\* starts, still the value that was returned.
EvaluateWritesNothing ==
    [][/\ weights' = weights
       /\ (~Finished \/ pc' = "diversity") => self' = self
       /\ sets'.default = sets.default
       /\ ~Finished => (sets' = sets /\ previous' = previous)
       /\ (Returned /\ pc' = "diversity" /\ previous' # <<>>) =>
              previous'[1].result = result]_vars

SecondCallReturned ==
    /\ Returned
    /\ previous # <<>>
    /\ previous[1].result # <<>>
    /\ ~previous[1].passed
    /\ passed
    /\ sets.caller # {}

\* 2000 * x and 2 * n brought to one power of two, with half a thousandth
TwiceThousandX ==
    ShiftLeft(MulSmall(combined_score[1].m, 2000),
              IF combined_score[1].e > 0 THEN combined_score[1].e ELSE 0)

Scale == IF combined_score[1].e < 0 THEN 0 - combined_score[1].e ELSE 0

TwiceScore == ShiftLeft(NatOf(2 * result[1].score), Scale)

Half == ShiftLeft(<<1>>, Scale)

\* the weighted sum lies exactly between two neighbouring 3-decimal values
ExactlyHalfway ==
    \/ Cmp(TwiceThousandX, Add(TwiceScore, Half)) = 0
    \/ Cmp(TwiceScore, Add(TwiceThousandX, Half)) = 0

\* C8: the score is a 3-decimal value nearest the weighted sum (no other is
\* nearer), and when the sum lies exactly halfway between two of them, the
\* one whose third decimal is even.
RoundsHalfToEven ==
    Returned =>
        /\ Cmp(TwiceThousandX, Add(TwiceScore, Half)) <= 0
        /\ Cmp(TwiceScore, Add(TwiceThousandX, Half)) <= 0
        /\ ExactlyHalfway => result[1].score % 2 = 0

TieRoundedToEven ==
    /\ Returned
    /\ ExactlyHalfway
    /\ result[1].score = 62

\* C9: the diversity and precision checkers get the caller's text, the
\* sophistication checker the text and the caller's replacement_words (the
\* default set when omitted), and the Result's three sub-results are what
\* the three collaborators returned.
ForwardsUnaltered ==
    /\ \A i \in 1..Len(calls) :
           calls[i].args =
               IF i = 2
               THEN <<text, IF passed THEN sets.caller ELSE sets.default>>
               ELSE <<text>>
    /\ Returned =>
           /\ result[1].lexical_diversity = calls[1].returned[1]
           /\ result[1].sophistication = calls[2].returned[1]
           /\ result[1].precision = calls[3].returned[1]

WordsForwarded ==
    /\ Returned
    /\ passed
    /\ text = "the quick brown fox"
    /\ calls[2].args = <<"the quick brown fox", {<<"quick", "fast">>}>>
    /\ result[1].sophistication.details.replacement_words = {<<"quick", "fast">>}

\* C10: a call that failed is the last call of this evaluate: after a
\* failure of the diversity checker one call was made, after a failure of
\* the sophistication checker two, and evaluate has left with the exception.
FailureShortCircuits ==
    \A i \in 1..Len(calls) :
        calls[i].raised # <<>> =>
            /\ Len(calls) = i
            /\ pc = "raised"

DiversityFailureStops ==
    /\ pc = "raised"
    /\ Len(calls) = 1
    /\ calls[1].callee = self.lexical_diversity_checker
    /\ sophistication_result = <<>>
    /\ precision_result = <<>>

=============================================================================
